---- MODULE Spec2Model ----
(***************************************************************************)
(* Attestation validation of the beacon-chain client:                      *)
(* lighthouse/state/validation/attestation_validation.rs.                  *)
(*                                                                         *)
(* validate_attestation is a pure function of its arguments.  One          *)
(* invocation is modelled as a run of a small state machine: every check   *)
(* of the function body is one step, an early return ends the run with     *)
(* result = Err(e), falling off the end ends it with Ok(false).  The       *)
(* arguments are drawn in Init from bounded sets and never change.  After  *)
(* a run has ended the caller may invoke the function again with the same  *)
(* arguments; the block store handed to the function may have changed in   *)
(* between.                                                                *)
(*                                                                         *)
(* Slots are u64 in the source.  The only arithmetic on them is            *)
(* u64::from(cycle_length) + 1 (at most 256, cannot overflow) and a        *)
(* saturating subtraction, so no value of the model wraps and the model    *)
(* uses unbounded naturals.                                                *)
(***************************************************************************)
EXTENDS Naturals, Sequences

VARIABLES
    a,                          \* &AttestationRecord
    block_slot,                 \* u64
    cycle_length,               \* u8
    known_last_justified_slot,  \* u64
    known_parent_hashes,        \* Arc<Vec<Hash256>>
    block_store,                \* BlockStore<T>: the set of block hashes stored
    attester_map,               \* Arc<AttesterMap>
    attestation_indices,        \* local: the committee found in attester_map
    parent_hashes,              \* local: result of attestation_parent_hashes
    signed_message,             \* local: result of generate_signed_message
    pc,                         \* index of the step the run is at
    steps,                      \* history: the steps this run has executed
    result,                     \* Pending while running, then Ok(b) or Err(e)
    prev_result,                \* history: result of the previous invocation
    calls                       \* history: number of invocations so far

vars == <<a, block_slot, cycle_length, known_last_justified_slot,
          known_parent_hashes, block_store, attester_map,
          attestation_indices, parent_hashes, signed_message,
          pc, steps, result, prev_result, calls>>

inputs == <<a, block_slot, cycle_length, known_last_justified_slot,
            known_parent_hashes, attester_map>>

(***************************************************************************)
(* Bounds of the model.                                                    *)
(***************************************************************************)
MaxSlot == 3
MaxCycle == 2
MaxJustified == 1
MaxCommittee == 9
MaxBytes == 3
MaxCalls == 2
MaxWideSlot == 10
MaxWideCycle == 5

(***************************************************************************)
(* Result<bool, AttestationValidationError>                                *)
(***************************************************************************)
AttestationValidationError ==
    {"SlotTooHigh", "SlotTooLow", "JustifiedSlotTooHigh", "TooManyObliqueHashes",
     "BadCurrentHashes", "BadObliqueHashes", "BadAttesterMap", "IntWrapping",
     "IncorrectBitField", "NoSignatures", "NonZeroTrailingBits",
     "AggregateSignatureFail"}

Pending == [tag |-> "Pending", value |-> FALSE, error |-> "none"]
Ok(b) == [tag |-> "Ok", value |-> b, error |-> "none"]
Err(e) == [tag |-> "Err", value |-> FALSE, error |-> e]

Terminal == result # Pending

(***************************************************************************)
(* Helpers of the source.                                                  *)
(***************************************************************************)
\* Variant of saturating_sub: the subtraction wraps around the top of the word
\* instead of stopping at 0.  (The word is scaled to 16 bits; every modulus
\* above the slots of the model gives the same comparisons.)
wrapping_sub(x, y) == IF x >= y THEN x - y ELSE (2 ^ 16) - (y - x)

\* u64::saturating_sub / usize::saturating_sub
saturating_sub(x, y) == IF x >= y THEN x - y ELSE 0

\* fn bytes_for_bits(bits: usize) -> usize
bytes_for_bits(bits) == (saturating_sub(bits, 1) \div 8) + 1

\* if a.slot > block_slot
slot_too_high(rec, bslot) == rec.slot > bslot

\* if a.slot < block_slot.saturating_sub(u64::from(cycle_length) + 1)
slot_too_low(rec, bslot, clen) == rec.slot < saturating_sub(bslot, clen + 1)

\* Variant of justified_slot_too_high: rejects an equal justified slot too.
justified_slot_not_below(rec, klj) == rec.justified_slot >= klj

\* if a.justified_slot > known_last_justified_slot
justified_slot_too_high(rec, klj) == rec.justified_slot > klj

\* Variant of too_many_oblique_hashes: rejects exactly cycle_length hashes too.
oblique_hashes_at_least(rec, clen) == Len(rec.oblique_parent_hashes) >= clen

\* if a.oblique_parent_hashes.len() > usize::from(cycle_length)
too_many_oblique_hashes(rec, clen) == Len(rec.oblique_parent_hashes) > clen

\* attester_map.get(&(a.slot, a.shard_id.into()))
attester_map_get(map, rec) ==
    IF <<rec.slot, rec.shard_id>> \in DOMAIN map
    THEN [some |-> TRUE, indices |-> map[<<rec.slot, rec.shard_id>>]]
    ELSE [some |-> FALSE, indices |-> <<>>]

\* if a.attester_bitfield.num_bytes() != bytes_for_bits(attestation_indices.len())
incorrect_bitfield(rec, indices) ==
    rec.attester_bitfield.num_bytes # bytes_for_bits(Len(indices))

\* The variants of ParentHashesError, as the match of the From impl lists them.
ParentHashesError ==
    {"BadCurrentHashes", "BadObliqueHashes", "SlotTooLow", "SlotTooHigh",
     "IntWrapping"}

\* impl From<ParentHashesError> for AttestationValidationError
From_ParentHashesError(e) ==
    CASE e = "BadCurrentHashes" -> "BadCurrentHashes"
      [] e = "BadObliqueHashes" -> "BadObliqueHashes"
      [] e = "SlotTooLow" -> "SlotTooLow"
      [] e = "SlotTooHigh" -> "SlotTooHigh"
      [] e = "IntWrapping" -> "IntWrapping"

\* fn collect_pub_keys(..) -> Option<Vec<PublicKey>>: the body is `None`
collect_pub_keys(indices, bitfield) == [some |-> FALSE, keys |-> <<>>]

\* fn generate_signed_message(..) -> Vec<u8>: the fields in stream order, each
\* tagged with its encoded width, reduced by the canonical hash (kept abstract
\* as an injective wrapper of the byte string)
generate_signed_message(slot, hashes, shard_id, shard_block_hash, justified_slot) ==
    [canonical_hash_of |->
        <<[bytes |-> 8, val |-> <<"u64", slot>>]>>
        \o [i \in 1..Len(hashes) |-> [bytes |-> 32, val |-> hashes[i]]]
        \o <<[bytes |-> 2, val |-> <<"u16", shard_id>>],
             [bytes |-> 32, val |-> shard_block_hash],
             [bytes |-> 8, val |-> <<"u64", justified_slot>>]>>]

(***************************************************************************)
(* attestation_parent_hashes is imported from a sibling module whose       *)
(* source is not among the files; it is modelled from section 4.2 of the   *)
(* specification.  known_parent_hashes must hold the window of the two     *)
(* cycles before the block (2 * cycle_length hashes), the oblique hashes   *)
(* may not outnumber one cycle, the distance from the attestation slot to  *)
(* the block slot must lie in [0, cycle_length], and the offsets are       *)
(* computed with checked arithmetic.  The result is the cycle_length       *)
(* hashes of the window before the attestation slot, its tail replaced by  *)
(* the oblique hashes.                                                     *)
(***************************************************************************)
ParentHashesOk(hs) == [ok |-> TRUE, hashes |-> hs, error |-> "none"]
ParentHashesErr(e) == [ok |-> FALSE, hashes |-> <<>>, error |-> e]

attestation_parent_hashes(clen, bslot, aslot, current_hashes, oblique_hashes) ==
    IF Len(current_hashes) # clen * 2 THEN ParentHashesErr("BadCurrentHashes")
    ELSE IF Len(oblique_hashes) > clen THEN ParentHashesErr("BadObliqueHashes")
    ELSE IF aslot > bslot THEN ParentHashesErr("SlotTooHigh")
    ELSE IF bslot - aslot > clen THEN ParentHashesErr("SlotTooLow")
    ELSE LET start == clen - (bslot - aslot)
         IN  IF start + clen < Len(oblique_hashes)
             THEN ParentHashesErr("IntWrapping")
             ELSE ParentHashesOk(
                      SubSeq(current_hashes, start + 1,
                             start + clen - Len(oblique_hashes))
                      \o oblique_hashes)

(***************************************************************************)
(* Arguments.                                                              *)
(***************************************************************************)
KnownHashes(n) == [i \in 1..n |-> <<"known", i>>]
ObliqueHashes(n) == [i \in 1..n |-> <<"oblique", i>>]
ShardBlockHash == <<"shard_block", 0>>
BlockStores == {{}, {ShardBlockHash}}

\* A committee of n distinct validator indices, in committee order.
Committee(n) == [i \in 1..n |-> i + 10]

\* The map built by the shuffling: a committee for every slot of shard 0.
AttesterMapOf(maxslot, n) == [k \in (0..maxslot) \X {0} |-> Committee(n)]

\* Bit patterns of a bitfield of nb bytes: none set, the first bit, the last
\* bit of the last byte, both.
BitPatterns(nb) ==
    IF nb = 0 THEN {{}} ELSE {{}, {0}, {8 * nb - 1}, {0, 8 * nb - 1}}

\* Family 1: the slot, justification, oblique-hash and map arguments vary
\* together; the committee has one member and signed.
StructuralInputs ==
    [slot : 0..MaxSlot, block_slot : 0..MaxSlot, cycle_length : 0..MaxCycle,
     justified_slot : 0..MaxJustified, klj : 0..MaxJustified,
     n_oblique : 0..(MaxCycle + 1), known_extra : {0, 1}, shard_id : {0, 1},
     committee : {1}, num_bytes : {1, 2}, bits : {{0}},
     aggregate_signature : {"valid"}, maxslot : {MaxSlot}]

\* Family 2: the committee size and the bitfield vary; the attestation is one
\* slot behind its block.
BitfieldInputs ==
    UNION {[slot : {1}, block_slot : {2}, cycle_length : {1},
            justified_slot : {0}, klj : {0}, n_oblique : {0, 1},
            known_extra : {0}, shard_id : {0},
            committee : 0..MaxCommittee, num_bytes : {nb},
            bits : BitPatterns(nb),
            aggregate_signature : {"valid", "forged"}, maxslot : {MaxSlot}]
           : nb \in 0..MaxBytes}

\* Family 3: a wide range of slots and cycle lengths, everything else fixed.
SlotWindowInputs ==
    [slot : 0..MaxWideSlot, block_slot : 0..MaxWideSlot,
     cycle_length : 0..MaxWideCycle,
     justified_slot : {0}, klj : {0}, n_oblique : {0}, known_extra : {0},
     shard_id : {0}, committee : {8}, num_bytes : {1}, bits : {{0}},
     aggregate_signature : {"valid"}, maxslot : {MaxWideSlot}]

Inputs == StructuralInputs \cup BitfieldInputs \cup SlotWindowInputs

InitFrom(S) ==
    \E i \in S :
        /\ a = [slot |-> i.slot,
                shard_id |-> i.shard_id,
                justified_slot |-> i.justified_slot,
                oblique_parent_hashes |-> ObliqueHashes(i.n_oblique),
                shard_block_hash |-> ShardBlockHash,
                attester_bitfield |-> [num_bytes |-> i.num_bytes, bits |-> i.bits],
                aggregate_signature |-> i.aggregate_signature]
        /\ block_slot = i.block_slot
        /\ cycle_length = i.cycle_length
        /\ known_last_justified_slot = i.klj
        /\ known_parent_hashes = KnownHashes(2 * i.cycle_length + i.known_extra)
        /\ attester_map = AttesterMapOf(i.maxslot, i.committee)
        /\ block_store = {}
        /\ attestation_indices = <<>>
        /\ parent_hashes = <<>>
        /\ signed_message = <<>>
        /\ pc = 0
        /\ steps = <<>>
        /\ result = Pending
        /\ prev_result = Pending
        /\ calls = 1

Init == InitFrom(Inputs)

\* The attestations of family 2 alone.
InitBitfield == InitFrom(BitfieldInputs)

\* The attestations of family 2 whose committee has at least one member.
InitCommittee == InitFrom({i \in BitfieldInputs : i.committee > 0})

(***************************************************************************)
(* The steps of validate_attestation.                                      *)
(***************************************************************************)
Reject(e) ==
    /\ result' = Err(e)
    /\ pc' = pc

Pass ==
    /\ result' = result
    /\ pc' = pc + 1

Step(n) ==
    /\ pc = n
    /\ ~Terminal
    /\ steps' = Append(steps, n)
    /\ UNCHANGED <<inputs, block_store, prev_result, calls>>

\* Variant of CheckSlotTooHigh: the justified slot is tested before the slot.
CheckSlotTooHigh_JustifiedFirst ==
    /\ Step(0)
    /\ IF justified_slot_too_high(a, known_last_justified_slot)
       THEN Reject("JustifiedSlotTooHigh")
       ELSE IF slot_too_high(a, block_slot) THEN Reject("SlotTooHigh") ELSE Pass
    /\ UNCHANGED <<attestation_indices, parent_hashes, signed_message>>

CheckSlotTooHigh ==
    /\ Step(0)
    /\ IF slot_too_high(a, block_slot) THEN Reject("SlotTooHigh") ELSE Pass
    /\ UNCHANGED <<attestation_indices, parent_hashes, signed_message>>

CheckSlotTooLow ==
    /\ Step(1)
    /\ IF slot_too_low(a, block_slot, cycle_length)
       THEN Reject("SlotTooLow") ELSE Pass
    /\ UNCHANGED <<attestation_indices, parent_hashes, signed_message>>

CheckJustifiedSlot ==
    /\ Step(2)
    /\ IF justified_slot_too_high(a, known_last_justified_slot)
       THEN Reject("JustifiedSlotTooHigh") ELSE Pass
    /\ UNCHANGED <<attestation_indices, parent_hashes, signed_message>>

CheckObliqueHashes ==
    /\ Step(3)
    /\ IF too_many_oblique_hashes(a, cycle_length)
       THEN Reject("TooManyObliqueHashes") ELSE Pass
    /\ UNCHANGED <<attestation_indices, parent_hashes, signed_message>>

LookupAttesterMap ==
    /\ Step(4)
    /\ LET found == attester_map_get(attester_map, a)
       IN  IF found.some
           THEN Pass /\ attestation_indices' = found.indices
           ELSE Reject("BadAttesterMap") /\ UNCHANGED attestation_indices
    /\ UNCHANGED <<parent_hashes, signed_message>>

CheckBitfieldLength ==
    /\ Step(5)
    /\ IF incorrect_bitfield(a, attestation_indices)
       THEN Reject("IncorrectBitField") ELSE Pass
    /\ UNCHANGED <<attestation_indices, parent_hashes, signed_message>>

ResolveParentHashes ==
    /\ Step(6)
    /\ LET r == attestation_parent_hashes(cycle_length, block_slot, a.slot,
                                          known_parent_hashes,
                                          a.oblique_parent_hashes)
       IN  IF r.ok
           THEN Pass /\ parent_hashes' = r.hashes
           ELSE Reject(From_ParentHashesError(r.error)) /\ UNCHANGED parent_hashes
    /\ UNCHANGED <<attestation_indices, signed_message>>

GenerateSignedMessage ==
    /\ Step(7)
    /\ Pass
    /\ signed_message' = generate_signed_message(a.slot, parent_hashes, a.shard_id,
                                                 a.shard_block_hash, a.justified_slot)
    /\ UNCHANGED <<attestation_indices, parent_hashes>>

\* Variant of ReturnOk: the result says whether the block store holds the
\* attested shard block.
ReturnOk_FromBlockStore ==
    /\ Step(8)
    /\ result' = Ok(a.shard_block_hash \in block_store)
    /\ pc' = pc
    /\ UNCHANGED <<attestation_indices, parent_hashes, signed_message>>

\* Variant of ReturnOk: the signers are collected from the bitfield and the
\* aggregate signature is verified before the result is returned.
ReturnOk_Verified ==
    /\ Step(8)
    /\ result' = IF a.attester_bitfield.bits = {} THEN Err("NoSignatures")
                 ELSE IF \E b \in a.attester_bitfield.bits :
                             b >= Len(attestation_indices)
                 THEN Err("NonZeroTrailingBits")
                 ELSE IF a.aggregate_signature # "valid"
                 THEN Err("AggregateSignatureFail")
                 ELSE Ok(TRUE)
    /\ pc' = pc
    /\ UNCHANGED <<attestation_indices, parent_hashes, signed_message>>

ReturnOk ==
    /\ Step(8)
    /\ result' = Ok(FALSE)
    /\ pc' = pc
    /\ UNCHANGED <<attestation_indices, parent_hashes, signed_message>>

\* The caller invokes validate_attestation again with the same arguments; the
\* block store it passes may hold other blocks by then.
Reinvoke ==
    /\ Terminal
    /\ calls < MaxCalls
    /\ calls' = calls + 1
    /\ prev_result' = result
    /\ result' = Pending
    /\ pc' = 0
    /\ steps' = <<>>
    /\ block_store' \in BlockStores
    /\ attestation_indices' = <<>>
    /\ parent_hashes' = <<>>
    /\ signed_message' = <<>>
    /\ UNCHANGED inputs

Next ==
    \/ CheckSlotTooHigh
    \/ CheckSlotTooLow
    \/ CheckJustifiedSlot
    \/ CheckObliqueHashes
    \/ LookupAttesterMap
    \/ CheckBitfieldLength
    \/ ResolveParentHashes
    \/ GenerateSignedMessage
    \/ ReturnOk
    \/ Reinvoke

Spec == Init /\ [][Next]_vars

SpecBitfield == InitBitfield /\ [][Next]_vars

SpecCommittee == InitCommittee /\ [][Next]_vars

(***************************************************************************)
(* Vocabulary of the properties, stated over the arguments of the call.    *)
(***************************************************************************)
\* The checks in the order the contract lists them; index k is check k + 1.
CheckOrder ==
    <<"SlotTooHigh", "SlotTooLow", "JustifiedSlotTooHigh", "TooManyObliqueHashes",
      "BadAttesterMap", "IncorrectBitField">>

\* block_slot - (cycle_length + 1), stopping at 0
LowerBound ==
    IF block_slot >= cycle_length + 1 THEN block_slot - (cycle_length + 1) ELSE 0

MapKey == <<a.slot, a.shard_id>>
CommitteeSize == Len(attester_map[MapKey])
CeilDiv8(n) == (n + 7) \div 8

\* Index (from 0) of the first of the six structural checks the arguments fail,
\* 6 when they pass all of them.
FirstFailure ==
    IF a.slot > block_slot THEN 0
    ELSE IF a.slot < LowerBound THEN 1
    ELSE IF a.justified_slot > known_last_justified_slot THEN 2
    ELSE IF Len(a.oblique_parent_hashes) > cycle_length THEN 3
    ELSE IF MapKey \notin DOMAIN attester_map THEN 4
    ELSE IF a.attester_bitfield.num_bytes # bytes_for_bits(CommitteeSize) THEN 5
    ELSE 6

Resolved ==
    attestation_parent_hashes(cycle_length, block_slot, a.slot,
                              known_parent_hashes, a.oblique_parent_hashes)

RejectedAt(n, e) == Terminal /\ pc = n /\ result = Err(e)

InOrder == steps = [i \in 1..Len(steps) |-> i - 1]

RunStep ==
    \/ CheckSlotTooHigh \/ CheckSlotTooLow \/ CheckJustifiedSlot
    \/ CheckObliqueHashes \/ LookupAttesterMap \/ CheckBitfieldLength
    \/ ResolveParentHashes \/ GenerateSignedMessage \/ ReturnOk

(***************************************************************************)
(* C1: the checks run in the order SlotTooHigh, SlotTooLow,                *)
(* JustifiedSlotTooHigh, TooManyObliqueHashes, BadAttesterMap,             *)
(* IncorrectBitField, then the parent-hash resolver, and the run stops at  *)
(* the first check that fails: a finished run was rejected by the earliest *)
(* check its arguments fail, with that check's error, and reached the      *)
(* resolver only when they fail none.  In particular a.slot > block_slot   *)
(* always ends in SlotTooHigh.                                             *)
(***************************************************************************)
C1_FailFastOrder ==
    /\ InOrder
    /\ Terminal =>
        /\ FirstFailure < 6 => RejectedAt(FirstFailure, CheckOrder[FirstFailure + 1])
        /\ FirstFailure = 6 => pc >= 6
        /\ a.slot > block_slot => result = Err("SlotTooHigh")

\* A finished run whose arguments fail checks 1, 3, 4 and 5 at once.
C1_Witness ==
    /\ Terminal
    /\ a.slot > block_slot
    /\ a.justified_slot > known_last_justified_slot
    /\ Len(a.oblique_parent_hashes) > cycle_length
    /\ MapKey \notin DOMAIN attester_map
    /\ result = Err("SlotTooHigh")

(***************************************************************************)
(* C2: an attestation that passes the six structural checks, whose parent  *)
(* hashes resolve, with at least one bit set, every set bit inside the     *)
(* committee, and a valid aggregate signature, is accepted.                *)
(***************************************************************************)
C2_ValidIsAccepted ==
    ( /\ Terminal
      /\ FirstFailure = 6
      /\ Resolved.ok
      /\ a.attester_bitfield.bits # {}
      /\ \A b \in a.attester_bitfield.bits : b < CommitteeSize
      /\ a.aggregate_signature = "valid" )
    => result = Ok(TRUE)

(***************************************************************************)
(* C3: among the runs with a.slot <= block_slot, the too-low check rejects *)
(* with SlotTooLow exactly when a.slot < block_slot - (cycle_length + 1),  *)
(* the subtraction stopping at 0: the boundary slot passes, and when       *)
(* block_slot < cycle_length + 1 no slot is rejected by this check.        *)
(***************************************************************************)
C3_SlotTooLowBoundary ==
    (Terminal /\ a.slot <= block_slot) =>
        /\ RejectedAt(1, "SlotTooLow") <=> a.slot < LowerBound
        /\ a.slot = LowerBound => pc > 1
        /\ block_slot < cycle_length + 1 => pc > 1
        /\ (block_slot = 10 /\ cycle_length = 5) =>
               (RejectedAt(1, "SlotTooLow") <=> a.slot <= 3)

\* A finished run where the subtraction stops at 0 and the check was passed.
C3_Witness ==
    /\ Terminal
    /\ block_slot < cycle_length + 1
    /\ a.slot <= block_slot
    /\ pc > 1

(***************************************************************************)
(* C4: the bitfield-length check passes exactly when the bitfield holds    *)
(* ceil(committee size / 8) bytes, for every committee size, 0 and the     *)
(* multiples of 8 included.                                                *)
(***************************************************************************)
C4_CeilBytes ==
    (Terminal /\ pc >= 5) =>
        /\ bytes_for_bits(CommitteeSize) = CeilDiv8(CommitteeSize)
        /\ RejectedAt(5, "IncorrectBitField")
               <=> a.attester_bitfield.num_bytes # CeilDiv8(CommitteeSize)

C6_ObliqueHashBound ==
    /\ (Terminal /\ pc >= 3) =>
        /\ Len(a.oblique_parent_hashes) = cycle_length => pc > 3
        /\ Len(a.oblique_parent_hashes) > cycle_length
               => RejectedAt(3, "TooManyObliqueHashes")
    /\ pc > 3 => Len(a.oblique_parent_hashes) <= cycle_length

\* Exactly cycle_length oblique hashes, at least one, and check 4 passed.
C6_Witness ==
    /\ Terminal
    /\ pc > 3
    /\ cycle_length > 0
    /\ Len(a.oblique_parent_hashes) = cycle_length

(***************************************************************************)
(* C7: an attestation that passes the six structural checks, whose parent  *)
(* hashes resolve, and whose bitfield has no bit set is rejected with      *)
(* NoSignatures.                                                           *)
(***************************************************************************)
C7_EmptyBitfieldRejected ==
    ( /\ Terminal
      /\ FirstFailure = 6
      /\ Resolved.ok
      /\ a.attester_bitfield.bits = {} )
    => result = Err("NoSignatures")

(***************************************************************************)
(* C8: a second invocation with the same record, block_slot, cycle_length, *)
(* known_last_justified_slot, known_parent_hashes and attester_map returns *)
(* what the first returned, whatever else (the block store) has changed.   *)
(***************************************************************************)
C8_Deterministic ==
    (Terminal /\ calls >= 2) => result = prev_result

\* A second invocation that finished against a block store that has changed.
C8_Witness ==
    /\ Terminal
    /\ calls >= 2
    /\ block_store # {}
    /\ pc = 8
    /\ result = prev_result

(***************************************************************************)
(* C9: a run starts at step 0, takes the steps in increasing order, each   *)
(* at most once, and ends in exactly one terminal state, Accepted or       *)
(* Rejected(e) with e one of the twelve error kinds; from a terminal state *)
(* the run takes no further step.                                          *)
(***************************************************************************)
C9_StateMachine ==
    /\ InOrder
    /\ Terminal =>
        /\ result \in {Ok(TRUE)} \cup {Err(e) : e \in AttestationValidationError}
        /\ ~ENABLED RunStep

(***************************************************************************)
(* C10: the function as written never returns Ok(true), NoSignatures,      *)
(* NonZeroTrailingBits or AggregateSignatureFail; when the six structural  *)
(* checks pass it returns Ok(false) if the parent hashes resolve, whatever *)
(* the bitfield and the signature, and otherwise the validation error of   *)
(* the same name as the resolver's error.                                  *)
(***************************************************************************)
C10_AlwaysOkFalse ==
    Terminal =>
        /\ result # Ok(TRUE)
        /\ result.error \notin
               {"NoSignatures", "NonZeroTrailingBits", "AggregateSignatureFail"}
        /\ FirstFailure = 6 =>
               IF Resolved.ok
               THEN result = Ok(FALSE)
               ELSE RejectedAt(6, Resolved.error)
        /\ result = Ok(FALSE) => (FirstFailure = 6 /\ Resolved.ok)
        /\ \A e \in ParentHashesError :
               /\ From_ParentHashesError(e) = e
               /\ e \in AttestationValidationError

\* Ok(false) for an attestation with a signer and a valid aggregate signature.
C10_Witness ==
    /\ result = Ok(FALSE)
    /\ a.attester_bitfield.bits = {0}
    /\ CommitteeSize > 0
    /\ a.aggregate_signature = "valid"

====
